---- MODULE Spec2Model ----
(***************************************************************************)
(* Timed funding round strategy (StarkNet contract embedded in             *)
(* packages/prop-house-webapp/src/state/slices/propHouse.ts, l.107-753).   *)
(* Every external entry point is one atomic step: a failing assertion      *)
(* reverts the transaction, so storage is left as it was and only the      *)
(* receipt of the call (last, commitment) tells what happened.  Calls are  *)
(* sent one at a time: the sender reads the receipt of a call (Return)     *)
(* before the next call or the next block.                                 *)
(* SpecLibrary applies the two library functions of finalize_round,         *)
(* select_winners and get_merkle_root, to arrays of their own.             *)
(***************************************************************************)
EXTENDS Integers, Sequences, FiniteSets, TLC

VARIABLES
    now,                                   \* get_block_timestamp()
    round_id_store,
    round_state_store,
    proposal_period_start_timestamp_store,
    proposal_period_end_timestamp_store,
    vote_period_end_timestamp_store,
    winner_count_store,
    next_proposal_nonce_store,
    proposal_vote_power_store,
    spent_voting_power_store,
    proposer_address_registry_store,
    cancelled_proposals_store,
    execute_count,                         \* successful IExecutionStrategy.execute calls
    pc,                                    \* the sender: "idle", or "returned" with a receipt to read
    last,                                  \* receipt of the last call: op, caller, ok, err
    before,                                \* the storage as the last call found it
    failed_attempt,                        \* what the last finalize_round whose execute failed ranked
                                           \* and passed, while the round is active; once a
                                           \* cancel_proposal succeeded, only what it ranked
    commitment                             \* what the last finalize_round computed, if it got that far

storage == <<round_id_store, round_state_store, proposal_period_start_timestamp_store,
             proposal_period_end_timestamp_store, vote_period_end_timestamp_store,
             winner_count_store, next_proposal_nonce_store, proposal_vote_power_store,
             spent_voting_power_store, proposer_address_registry_store,
             cancelled_proposals_store>>

vars == <<now, storage, execute_count, pc, last, before, failed_attempt, commitment>>

\* the persisted state, and the number of executions, as one value
Snapshot ==
    [round_id |-> round_id_store,
     round_state |-> round_state_store,
     proposal_period_start_timestamp |-> proposal_period_start_timestamp_store,
     proposal_period_end_timestamp |-> proposal_period_end_timestamp_store,
     vote_period_end_timestamp |-> vote_period_end_timestamp_store,
     winner_count |-> winner_count_store,
     next_proposal_nonce |-> next_proposal_nonce_store,
     proposal_vote_power |-> proposal_vote_power_store,
     spent_voting_power |-> spent_voting_power_store,
     proposer_address_registry |-> proposer_address_registry_store,
     cancelled_proposals |-> cancelled_proposals_store,
     execute_count |-> execute_count]

----------------------------------------------------------------------------
(* Bounds of the model *)

MaxTime == 6
MaxProposals == 3
MaxBatch == 2
\* the largest value of the unsigned word of the model; it stands for 2^256 - 1
MaxUint == 1000
FeltPrime == 1021
RangeCheckBound == 512

(* Program constants *)

MAX_WINNERS == 256
MAX_LOG_N_WINNERS == 8
ETH_TX_AUTH_STRATEGY == "ETH_TX_AUTH_STRATEGY"
ETH_SIG_AUTH_STRATEGY == "ETH_SIG_AUTH_STRATEGY"

ACTIVE == "ACTIVE"
EXECUTED == "EXECUTED"
CANCELLED == "CANCELLED"
RoundState == {ACTIVE, EXECUTED, CANCELLED}

TRUE_ == 1
FALSE_ == 0

(* Inputs *)

OtherCaller == "OTHER_CONTRACT"
Callers == {ETH_TX_AUTH_STRATEGY, ETH_SIG_AUTH_STRATEGY, OtherCaller}
Voters == {1, 2, 3}
Proposers == {1}
\* the round initiator, and the addresses a cancellation can be requested by
RoundInitiator == 2
Requesters == Proposers \cup {RoundInitiator}
VoteAmounts == {0, 50, 100}
\* the ids a call may name; an id from the nonce on names no proposal
ProposalIds == 1..MaxProposals
WinnerCounts == {0, 2, MAX_WINNERS + 1}
ProposalVote == [proposal_id : ProposalIds, voting_power : VoteAmounts]
ProposalVotes == UNION {[1..n -> ProposalVote] : n \in 0..MaxBatch}
Timestamps == 0..MaxTime

\* The voting strategy behind IVotingStrategy.get_voting_power: deterministic for a
\* timestamp, and growing with it, so that the timestamp asked for matters.
\* At timestamp 3 voter 1 holds 150, voter 2 holds 100 and voter 3 holds nothing.
OracleVotingPower(timestamp, voter_address) ==
    CASE voter_address = 1 -> 50 * timestamp
      [] voter_address = 2 -> IF timestamp = 0 THEN 0 ELSE 50 * (timestamp - 1)
      [] OTHER -> 0

----------------------------------------------------------------------------
(* openzeppelin SafeUint256: checked arithmetic, a failed check reverts *)

SafeUint256_add(a, b) == [ok |-> a + b <= MaxUint, value |-> a + b]
SafeUint256_sub_le(a, b) == [ok |-> b <= a, value |-> a - b]

MathUtils_min(a, b) == IF a <= b THEN a ELSE b

----------------------------------------------------------------------------
(* Internal functions *)

get_auth_strategy(index) ==
    IF index = 0 THEN ETH_TX_AUTH_STRATEGY ELSE ETH_SIG_AUTH_STRATEGY

\* is_valid_auth_strategy answering TRUE once the whitelist is exhausted
RECURSIVE is_valid_auth_strategy_default_true(_, _, _)
is_valid_auth_strategy_default_true(caller_address, curr_index, num_strategies) ==
    IF num_strategies = curr_index
    THEN TRUE_
    ELSE IF caller_address = get_auth_strategy(curr_index)
         THEN TRUE_
         ELSE is_valid_auth_strategy_default_true(caller_address, curr_index + 1,
                                                  num_strategies)

RECURSIVE is_valid_auth_strategy(_, _, _)
is_valid_auth_strategy(caller_address, curr_index, num_strategies) ==
    IF num_strategies = curr_index
    THEN FALSE_
    ELSE IF caller_address = get_auth_strategy(curr_index)
         THEN TRUE_
         ELSE is_valid_auth_strategy(caller_address, curr_index + 1, num_strategies)

\* the assertion holds iff the caller is one of the whitelisted auth strategies
assert_valid_auth_strategy(caller_address) ==
    is_valid_auth_strategy(caller_address, 0, 2) # 0

\* assert_round_active that only rejects a cancelled round
assert_round_not_cancelled == round_state_store # CANCELLED

assert_round_active == round_state_store = ACTIVE

get_user_voting_power(current_timestamp, voter_address) ==
    OracleVotingPower(current_timestamp, voter_address)

----------------------------------------------------------------------------
(* cast_votes *)

Failure(err_message, power, spent) ==
    [ok |-> FALSE, err |-> err_message, power |-> power, spent |-> spent, emitted |-> <<>>]

\* cast_proposal_votes reading the cancelled flag of the first entry for every entry
RECURSIVE cast_proposal_votes_first_cancelled_flag(_, _, _, _, _, _, _, _)
cast_proposal_votes_first_cancelled_flag(voter_address, current_index, proposal_votes, user_voting_power_total, user_voting_power_remaining, power, spent, emitted) ==
    IF current_index = Len(proposal_votes)
    THEN [ok |-> TRUE, err |-> "", power |-> power, spent |-> spent, emitted |-> emitted]
    ELSE
    LET proposal_vote == proposal_votes[current_index + 1]
        \* `proposal_votes.proposal_id` reads the first element of the array
        proposer_address == proposer_address_registry_store[proposal_votes[1].proposal_id]
        has_been_cancelled == cancelled_proposals_store[proposal_votes[1].proposal_id]
        previous_proposal_voting_power == power[proposal_vote.proposal_id]
        new_proposal_voting_power ==
            SafeUint256_add(proposal_vote.voting_power, previous_proposal_voting_power)
        new_remaining_voting_power ==
            SafeUint256_sub_le(user_voting_power_remaining, proposal_vote.voting_power)
        new_spent_voting_power ==
            SafeUint256_sub_le(user_voting_power_total, new_remaining_voting_power.value)
    IN  IF proposer_address = 0
        THEN Failure("Proposal does not exist", power, spent)
        ELSE IF has_been_cancelled # FALSE_
        THEN Failure("Proposal has been cancelled", power, spent)
        ELSE IF proposal_vote.voting_power = 0
        THEN Failure("Voting power must be greater than zero", power, spent)
        ELSE IF ~(proposal_vote.voting_power <= user_voting_power_remaining)
        THEN Failure("Not enough voting power remaining for user", power, spent)
        ELSE IF ~new_proposal_voting_power.ok
        THEN Failure("SafeUint256: addition overflow", power, spent)
        ELSE IF ~new_remaining_voting_power.ok \/ ~new_spent_voting_power.ok
        THEN Failure("SafeUint256: subtraction overflow", power, spent)
        ELSE cast_proposal_votes_first_cancelled_flag(
                voter_address, current_index + 1, proposal_votes,
                user_voting_power_total, new_remaining_voting_power.value,
                [power EXCEPT ![proposal_vote.proposal_id] = new_proposal_voting_power.value],
                [spent EXCEPT ![voter_address] = new_spent_voting_power.value],
                Append(emitted, [name |-> "vote_created",
                                 proposal_id |-> proposal_vote.proposal_id,
                                 voter_address |-> voter_address,
                                 voting_power |-> proposal_vote.voting_power]))

\* cast_proposal_votes adding to the power of the proposal modulo the word, unchecked
RECURSIVE cast_proposal_votes_unchecked_add(_, _, _, _, _, _, _, _)
cast_proposal_votes_unchecked_add(voter_address, current_index, proposal_votes, user_voting_power_total, user_voting_power_remaining, power, spent, emitted) ==
    IF current_index = Len(proposal_votes)
    THEN [ok |-> TRUE, err |-> "", power |-> power, spent |-> spent, emitted |-> emitted]
    ELSE
    LET proposal_vote == proposal_votes[current_index + 1]
        \* `proposal_votes.proposal_id` reads the first element of the array
        proposer_address == proposer_address_registry_store[proposal_votes[1].proposal_id]
        has_been_cancelled == cancelled_proposals_store[proposal_vote.proposal_id]
        previous_proposal_voting_power == power[proposal_vote.proposal_id]
        new_proposal_voting_power ==
            [ok |-> TRUE,
             value |-> (proposal_vote.voting_power + previous_proposal_voting_power)
                          % (MaxUint + 1)]
        new_remaining_voting_power ==
            SafeUint256_sub_le(user_voting_power_remaining, proposal_vote.voting_power)
        new_spent_voting_power ==
            SafeUint256_sub_le(user_voting_power_total, new_remaining_voting_power.value)
    IN  IF proposer_address = 0
        THEN Failure("Proposal does not exist", power, spent)
        ELSE IF has_been_cancelled # FALSE_
        THEN Failure("Proposal has been cancelled", power, spent)
        ELSE IF proposal_vote.voting_power = 0
        THEN Failure("Voting power must be greater than zero", power, spent)
        ELSE IF ~(proposal_vote.voting_power <= user_voting_power_remaining)
        THEN Failure("Not enough voting power remaining for user", power, spent)
        ELSE IF ~new_proposal_voting_power.ok
        THEN Failure("SafeUint256: addition overflow", power, spent)
        ELSE IF ~new_remaining_voting_power.ok \/ ~new_spent_voting_power.ok
        THEN Failure("SafeUint256: subtraction overflow", power, spent)
        ELSE cast_proposal_votes_unchecked_add(
                voter_address, current_index + 1, proposal_votes,
                user_voting_power_total, new_remaining_voting_power.value,
                [power EXCEPT ![proposal_vote.proposal_id] = new_proposal_voting_power.value],
                [spent EXCEPT ![voter_address] = new_spent_voting_power.value],
                Append(emitted, [name |-> "vote_created",
                                 proposal_id |-> proposal_vote.proposal_id,
                                 voter_address |-> voter_address,
                                 voting_power |-> proposal_vote.voting_power]))

\* Recursively casts votes on each proposal in the `proposal_votes` array.
\* power and spent are the two storage maps as written so far, emitted the
\* vote_created events.
\* The source's index starts at 0, a TLA+ sequence at 1.
RECURSIVE cast_proposal_votes(_, _, _, _, _, _, _, _)
cast_proposal_votes(voter_address, current_index, proposal_votes, user_voting_power_total, user_voting_power_remaining, power, spent, emitted) ==
    IF current_index = Len(proposal_votes)
    THEN [ok |-> TRUE, err |-> "", power |-> power, spent |-> spent, emitted |-> emitted]
    ELSE
    LET proposal_vote == proposal_votes[current_index + 1]
        \* `proposal_votes.proposal_id` reads the first element of the array
        proposer_address == proposer_address_registry_store[proposal_votes[1].proposal_id]
        has_been_cancelled == cancelled_proposals_store[proposal_vote.proposal_id]
        previous_proposal_voting_power == power[proposal_vote.proposal_id]
        new_proposal_voting_power ==
            SafeUint256_add(proposal_vote.voting_power, previous_proposal_voting_power)
        new_remaining_voting_power ==
            SafeUint256_sub_le(user_voting_power_remaining, proposal_vote.voting_power)
        new_spent_voting_power ==
            SafeUint256_sub_le(user_voting_power_total, new_remaining_voting_power.value)
    IN  IF proposer_address = 0
        THEN Failure("Proposal does not exist", power, spent)
        ELSE IF has_been_cancelled # FALSE_
        THEN Failure("Proposal has been cancelled", power, spent)
        ELSE IF proposal_vote.voting_power = 0
        THEN Failure("Voting power must be greater than zero", power, spent)
        ELSE IF ~(proposal_vote.voting_power <= user_voting_power_remaining)
        THEN Failure("Not enough voting power remaining for user", power, spent)
        ELSE IF ~new_proposal_voting_power.ok
        THEN Failure("SafeUint256: addition overflow", power, spent)
        ELSE IF ~new_remaining_voting_power.ok \/ ~new_spent_voting_power.ok
        THEN Failure("SafeUint256: subtraction overflow", power, spent)
        ELSE cast_proposal_votes(
                voter_address, current_index + 1, proposal_votes,
                user_voting_power_total, new_remaining_voting_power.value,
                [power EXCEPT ![proposal_vote.proposal_id] = new_proposal_voting_power.value],
                [spent EXCEPT ![voter_address] = new_spent_voting_power.value],
                Append(emitted, [name |-> "vote_created",
                                 proposal_id |-> proposal_vote.proposal_id,
                                 voter_address |-> voter_address,
                                 voting_power |-> proposal_vote.voting_power]))

\* cast_votes_entry_error with the vote period starting at the snapshot itself
cast_votes_entry_error_from_snapshot(caller_address) ==
    LET snapshot_timestamp == proposal_period_end_timestamp_store
        vote_period_start_timestamp == snapshot_timestamp
        vote_period_end_timestamp == vote_period_end_timestamp_store
        current_timestamp == now
    IN  IF ~assert_valid_auth_strategy(caller_address) THEN "Invalid auth strategy"
        ELSE IF ~assert_round_active THEN "Round not active"
        ELSE IF ~(current_timestamp < vote_period_end_timestamp)
        THEN "Vote period has ended"
        ELSE IF ~(vote_period_start_timestamp <= current_timestamp)
        THEN "Vote period has not started yet"
        ELSE ""

\* cast_votes_entry_error with assert_le in place of assert_lt on the end of the period
cast_votes_entry_error_le(caller_address) ==
    LET snapshot_timestamp == proposal_period_end_timestamp_store
        vote_period_start_timestamp == snapshot_timestamp + 1
        vote_period_end_timestamp == vote_period_end_timestamp_store
        current_timestamp == now
    IN  IF ~assert_valid_auth_strategy(caller_address) THEN "Invalid auth strategy"
        ELSE IF ~assert_round_active THEN "Round not active"
        ELSE IF ~(current_timestamp <= vote_period_end_timestamp)
        THEN "Vote period has ended"
        ELSE IF ~(vote_period_start_timestamp <= current_timestamp)
        THEN "Vote period has not started yet"
        ELSE ""

\* The checks cast_votes makes before it looks at its arguments
cast_votes_entry_error(caller_address) ==
    LET snapshot_timestamp == proposal_period_end_timestamp_store
        vote_period_start_timestamp == snapshot_timestamp + 1
        vote_period_end_timestamp == vote_period_end_timestamp_store
        current_timestamp == now
    IN  IF ~assert_valid_auth_strategy(caller_address) THEN "Invalid auth strategy"
        ELSE IF ~assert_round_active THEN "Round not active"
        ELSE IF ~(current_timestamp < vote_period_end_timestamp)
        THEN "Vote period has ended"
        ELSE IF ~(vote_period_start_timestamp <= current_timestamp)
        THEN "Vote period has not started yet"
        ELSE ""

\* cast_votes_outcome with the voting power taken at the current timestamp
cast_votes_outcome_power_now(caller_address, voter_address, proposal_votes) ==
    LET snapshot_timestamp == proposal_period_end_timestamp_store
        entry_error == cast_votes_entry_error(caller_address)
        user_voting_power == get_user_voting_power(now, voter_address)
        \* the timestamps IVotingStrategy.get_voting_power was asked for
        queried == <<now>>
        spent_voting_power == spent_voting_power_store[voter_address]
        remaining_voting_power == SafeUint256_sub_le(user_voting_power, spent_voting_power)
        unchanged(err_message) ==
            Failure(err_message, proposal_vote_power_store, spent_voting_power_store)
    IN  IF entry_error # ""
        THEN unchanged(entry_error) @@ [oracle_queries |-> <<>>]
        ELSE IF user_voting_power = 0
        THEN unchanged("No voting power for user") @@ [oracle_queries |-> queried]
        ELSE IF ~remaining_voting_power.ok
        THEN unchanged("SafeUint256: subtraction overflow") @@ [oracle_queries |-> queried]
        ELSE LET r == cast_proposal_votes(
                        voter_address, 0, proposal_votes,
                        user_voting_power, remaining_voting_power.value,
                        proposal_vote_power_store, spent_voting_power_store, <<>>)
             IN  (IF r.ok THEN r ELSE unchanged(r.err)) @@ [oracle_queries |-> queried]

\* cast_votes_outcome keeping what the entries before a refused one have written
cast_votes_outcome_partial_writes(caller_address, voter_address, proposal_votes) ==
    LET snapshot_timestamp == proposal_period_end_timestamp_store
        entry_error == cast_votes_entry_error(caller_address)
        user_voting_power == get_user_voting_power(snapshot_timestamp, voter_address)
        queried == <<snapshot_timestamp>>
        spent_voting_power == spent_voting_power_store[voter_address]
        remaining_voting_power == SafeUint256_sub_le(user_voting_power, spent_voting_power)
        unchanged(err_message) ==
            Failure(err_message, proposal_vote_power_store, spent_voting_power_store)
    IN  IF entry_error # ""
        THEN unchanged(entry_error) @@ [oracle_queries |-> <<>>]
        ELSE IF user_voting_power = 0
        THEN unchanged("No voting power for user") @@ [oracle_queries |-> queried]
        ELSE IF ~remaining_voting_power.ok
        THEN unchanged("SafeUint256: subtraction overflow") @@ [oracle_queries |-> queried]
        ELSE cast_proposal_votes(
                 voter_address, 0, proposal_votes,
                 user_voting_power, remaining_voting_power.value,
                 proposal_vote_power_store, spent_voting_power_store, <<>>)
             @@ [oracle_queries |-> queried]

\* cast_votes_outcome with the whole voting power handed to the loop as remaining,
\* whatever the voter has spent
cast_votes_outcome_ignores_spent(caller_address, voter_address, proposal_votes) ==
    LET snapshot_timestamp == proposal_period_end_timestamp_store
        entry_error == cast_votes_entry_error(caller_address)
        user_voting_power == get_user_voting_power(snapshot_timestamp, voter_address)
        queried == <<snapshot_timestamp>>
        unchanged(err_message) ==
            Failure(err_message, proposal_vote_power_store, spent_voting_power_store)
    IN  IF entry_error # ""
        THEN unchanged(entry_error) @@ [oracle_queries |-> <<>>]
        ELSE IF user_voting_power = 0
        THEN unchanged("No voting power for user") @@ [oracle_queries |-> queried]
        ELSE LET r == cast_proposal_votes(
                        voter_address, 0, proposal_votes,
                        user_voting_power, user_voting_power,
                        proposal_vote_power_store, spent_voting_power_store, <<>>)
             IN  (IF r.ok THEN r ELSE unchanged(r.err)) @@ [oracle_queries |-> queried]

\* cast_votes_outcome without the check that the voter has voting power
cast_votes_outcome_no_power_check(caller_address, voter_address, proposal_votes) ==
    LET snapshot_timestamp == proposal_period_end_timestamp_store
        entry_error == cast_votes_entry_error(caller_address)
        user_voting_power == get_user_voting_power(snapshot_timestamp, voter_address)
        queried == <<snapshot_timestamp>>
        spent_voting_power == spent_voting_power_store[voter_address]
        remaining_voting_power == SafeUint256_sub_le(user_voting_power, spent_voting_power)
        unchanged(err_message) ==
            Failure(err_message, proposal_vote_power_store, spent_voting_power_store)
    IN  IF entry_error # ""
        THEN unchanged(entry_error) @@ [oracle_queries |-> <<>>]
        ELSE IF ~remaining_voting_power.ok
        THEN unchanged("SafeUint256: subtraction overflow") @@ [oracle_queries |-> queried]
        ELSE LET r == cast_proposal_votes(
                        voter_address, 0, proposal_votes,
                        user_voting_power, remaining_voting_power.value,
                        proposal_vote_power_store, spent_voting_power_store, <<>>)
             IN  (IF r.ok THEN r ELSE unchanged(r.err)) @@ [oracle_queries |-> queried]

\* The outcome of cast_votes in the current state
cast_votes_outcome(caller_address, voter_address, proposal_votes) ==
    LET snapshot_timestamp == proposal_period_end_timestamp_store
        entry_error == cast_votes_entry_error(caller_address)
        user_voting_power == get_user_voting_power(snapshot_timestamp, voter_address)
        \* the timestamps IVotingStrategy.get_voting_power was asked for
        queried == <<snapshot_timestamp>>
        spent_voting_power == spent_voting_power_store[voter_address]
        remaining_voting_power == SafeUint256_sub_le(user_voting_power, spent_voting_power)
        unchanged(err_message) ==
            Failure(err_message, proposal_vote_power_store, spent_voting_power_store)
    IN  IF entry_error # ""
        THEN unchanged(entry_error) @@ [oracle_queries |-> <<>>]
        ELSE IF user_voting_power = 0
        THEN unchanged("No voting power for user") @@ [oracle_queries |-> queried]
        ELSE IF ~remaining_voting_power.ok
        THEN unchanged("SafeUint256: subtraction overflow") @@ [oracle_queries |-> queried]
        ELSE LET r == cast_proposal_votes(
                        voter_address, 0, proposal_votes,
                        user_voting_power, remaining_voting_power.value,
                        proposal_vote_power_store, spent_voting_power_store, <<>>)
             IN  (IF r.ok THEN r ELSE unchanged(r.err)) @@ [oracle_queries |-> queried]

cast_votes(caller_address, voter_address, proposal_votes) ==
    LET r == cast_votes_outcome(caller_address, voter_address, proposal_votes)
    IN  /\ pc = "idle"
        /\ pc' = "returned"
        /\ before' = Snapshot
        /\ proposal_vote_power_store' = r.power
        /\ spent_voting_power_store' = r.spent
        /\ last' = [op |-> "cast_votes", caller |-> caller_address, ok |-> r.ok, err |-> r.err,
                    oracle_queries |-> r.oracle_queries]
        /\ failed_attempt' = IF r.ok THEN <<>> ELSE failed_attempt
        /\ commitment' = <<>>
        /\ UNCHANGED <<now, round_id_store, round_state_store,
                       proposal_period_start_timestamp_store,
                       proposal_period_end_timestamp_store,
                       vote_period_end_timestamp_store, winner_count_store,
                       next_proposal_nonce_store, proposer_address_registry_store,
                       cancelled_proposals_store, execute_count>>

----------------------------------------------------------------------------
(* propose *)

\* propose_error with assert_le in place of assert_lt on the end of the period
propose_error_le(caller_address) ==
    LET current_timestamp == now
    IN  IF ~assert_valid_auth_strategy(caller_address) THEN "Invalid auth strategy"
        ELSE IF ~assert_round_active THEN "Round not active"
        ELSE IF ~(current_timestamp <= proposal_period_end_timestamp_store)
        THEN "Proposal period has ended"
        ELSE IF ~(proposal_period_start_timestamp_store <= current_timestamp)
        THEN "Proposal period has not started yet"
        ELSE ""

propose_error(caller_address) ==
    LET current_timestamp == now
    IN  IF ~assert_valid_auth_strategy(caller_address) THEN "Invalid auth strategy"
        ELSE IF ~assert_round_active THEN "Round not active"
        ELSE IF ~(current_timestamp < proposal_period_end_timestamp_store)
        THEN "Proposal period has ended"
        ELSE IF ~(proposal_period_start_timestamp_store <= current_timestamp)
        THEN "Proposal period has not started yet"
        ELSE ""

\* propose writing proposal_id + 2 as the next nonce
propose_skips_id(caller_address, proposer_address) ==
    LET err_message == propose_error(caller_address)
        proposal_id == next_proposal_nonce_store
    IN  /\ pc = "idle"
        /\ pc' = "returned"
        /\ before' = Snapshot
        /\ err_message = "" => proposal_id + 1 <= MaxProposals
        /\ IF err_message = ""
           THEN /\ proposer_address_registry_store' =
                       [proposer_address_registry_store EXCEPT ![proposal_id] = proposer_address]
                /\ next_proposal_nonce_store' = proposal_id + 2
           ELSE UNCHANGED <<proposer_address_registry_store, next_proposal_nonce_store>>
        /\ last' = [op |-> "propose", caller |-> caller_address,
                    ok |-> err_message = "", err |-> err_message]
        /\ UNCHANGED failed_attempt
        /\ commitment' = <<>>
        /\ UNCHANGED <<now, round_id_store, round_state_store,
                       proposal_period_start_timestamp_store,
                       proposal_period_end_timestamp_store,
                       vote_period_end_timestamp_store, winner_count_store,
                       proposal_vote_power_store, spent_voting_power_store,
                       cancelled_proposals_store, execute_count>>

propose(caller_address, proposer_address) ==
    LET err_message == propose_error(caller_address)
        proposal_id == next_proposal_nonce_store
    IN  /\ pc = "idle"
        /\ pc' = "returned"
        /\ before' = Snapshot
        /\ err_message = "" => proposal_id <= MaxProposals
        /\ IF err_message = ""
           THEN /\ proposer_address_registry_store' =
                       [proposer_address_registry_store EXCEPT ![proposal_id] = proposer_address]
                /\ next_proposal_nonce_store' = proposal_id + 1
           ELSE UNCHANGED <<proposer_address_registry_store, next_proposal_nonce_store>>
        /\ last' = [op |-> "propose", caller |-> caller_address,
                    ok |-> err_message = "", err |-> err_message]
        /\ UNCHANGED failed_attempt
        /\ commitment' = <<>>
        /\ UNCHANGED <<now, round_id_store, round_state_store,
                       proposal_period_start_timestamp_store,
                       proposal_period_end_timestamp_store,
                       vote_period_end_timestamp_store, winner_count_store,
                       proposal_vote_power_store, spent_voting_power_store,
                       cancelled_proposals_store, execute_count>>

----------------------------------------------------------------------------
(* cancel_round, cancel_proposal *)

cancel_round_error(caller_address) ==
    IF ~assert_valid_auth_strategy(caller_address) THEN "Invalid auth strategy"
    ELSE IF ~assert_round_active THEN "Round not active"
    ELSE ""

\* requester is the address on whose behalf the auth strategy forwards the call;
\* cancel_round takes no argument and never learns it
cancel_round(caller_address, requester) ==
    LET err_message == cancel_round_error(caller_address)
    IN  /\ pc = "idle"
        /\ pc' = "returned"
        /\ before' = Snapshot
        /\ round_state_store' = IF err_message = "" THEN CANCELLED ELSE round_state_store
        /\ last' = [op |-> "cancel_round", caller |-> caller_address,
                    ok |-> err_message = "", err |-> err_message]
        /\ failed_attempt' = IF err_message = "" THEN <<>> ELSE failed_attempt
        /\ commitment' = <<>>
        /\ UNCHANGED <<now, round_id_store, proposal_period_start_timestamp_store,
                       proposal_period_end_timestamp_store,
                       vote_period_end_timestamp_store, winner_count_store,
                       next_proposal_nonce_store, proposal_vote_power_store,
                       spent_voting_power_store, proposer_address_registry_store,
                       cancelled_proposals_store, execute_count>>

\* cancel_proposal_error without the check of the cancelled flag
cancel_proposal_error_no_flag_check(caller_address, proposal_id) ==
    LET proposer_address == proposer_address_registry_store[proposal_id]
    IN  IF ~assert_valid_auth_strategy(caller_address) THEN "Invalid auth strategy"
        ELSE IF ~assert_round_active THEN "Round not active"
        ELSE IF proposer_address = 0 THEN "Invalid proposal id"
        ELSE ""

\* cancel_proposal_error with a deadline at the end of the vote period
cancel_proposal_error_until_vote_end(caller_address, proposal_id) ==
    LET has_been_cancelled == cancelled_proposals_store[proposal_id]
        proposer_address == proposer_address_registry_store[proposal_id]
    IN  IF ~assert_valid_auth_strategy(caller_address) THEN "Invalid auth strategy"
        ELSE IF ~assert_round_active THEN "Round not active"
        ELSE IF ~(now < vote_period_end_timestamp_store) THEN "Vote period has ended"
        ELSE IF has_been_cancelled # 0 THEN "Proposal already cancelled"
        ELSE IF proposer_address = 0 THEN "Invalid proposal id"
        ELSE ""

cancel_proposal_error(caller_address, proposal_id) ==
    LET has_been_cancelled == cancelled_proposals_store[proposal_id]
        proposer_address == proposer_address_registry_store[proposal_id]
    IN  IF ~assert_valid_auth_strategy(caller_address) THEN "Invalid auth strategy"
        ELSE IF ~assert_round_active THEN "Round not active"
        ELSE IF has_been_cancelled # 0 THEN "Proposal already cancelled"
        ELSE IF proposer_address = 0 THEN "Invalid proposal id"
        ELSE ""

\* cancel_proposal deleting the proposal it cancels
cancel_proposal_deleting(caller_address, requester, proposal_id) ==
    LET err_message == cancel_proposal_error(caller_address, proposal_id)
    IN  /\ pc = "idle"
        /\ pc' = "returned"
        /\ before' = Snapshot
        /\ IF err_message = ""
           THEN /\ cancelled_proposals_store' =
                       [cancelled_proposals_store EXCEPT ![proposal_id] = 1]
                /\ proposer_address_registry_store' =
                       [proposer_address_registry_store EXCEPT ![proposal_id] = 0]
                /\ proposal_vote_power_store' =
                       [proposal_vote_power_store EXCEPT ![proposal_id] = 0]
           ELSE UNCHANGED <<cancelled_proposals_store, proposer_address_registry_store,
                            proposal_vote_power_store>>
        /\ last' = [op |-> "cancel_proposal", caller |-> caller_address,
                    ok |-> err_message = "", err |-> err_message,
                    proposal_id |-> proposal_id]
        /\ failed_attempt' =
               IF err_message = "" /\ failed_attempt # <<>>
               THEN <<[failed_attempt[1] EXCEPT !.cancelled_since = TRUE,
                                                !.execution_params = <<>>]>>
               ELSE failed_attempt
        /\ commitment' = <<>>
        /\ UNCHANGED <<now, round_id_store, round_state_store,
                       proposal_period_start_timestamp_store,
                       proposal_period_end_timestamp_store,
                       vote_period_end_timestamp_store, winner_count_store,
                       next_proposal_nonce_store, spent_voting_power_store,
                       execute_count>>

\* requester is the address on whose behalf the auth strategy forwards the call;
\* cancel_proposal takes proposal_id and execution_params and never learns it
cancel_proposal(caller_address, requester, proposal_id) ==
    LET err_message == cancel_proposal_error(caller_address, proposal_id)
    IN  /\ pc = "idle"
        /\ pc' = "returned"
        /\ before' = Snapshot
        /\ cancelled_proposals_store' =
               IF err_message = ""
               THEN [cancelled_proposals_store EXCEPT ![proposal_id] = 1]
               ELSE cancelled_proposals_store
        /\ last' = [op |-> "cancel_proposal", caller |-> caller_address,
                    ok |-> err_message = "", err |-> err_message,
                    proposal_id |-> proposal_id]
        /\ failed_attempt' =
               IF err_message = "" /\ failed_attempt # <<>>
               THEN <<[failed_attempt[1] EXCEPT !.cancelled_since = TRUE,
                                                !.execution_params = <<>>]>>
               ELSE failed_attempt
        /\ commitment' = <<>>
        /\ UNCHANGED <<now, round_id_store, round_state_store,
                       proposal_period_start_timestamp_store,
                       proposal_period_end_timestamp_store,
                       vote_period_end_timestamp_store, winner_count_store,
                       next_proposal_nonce_store, proposal_vote_power_store,
                       spent_voting_power_store, proposer_address_registry_store,
                       execute_count>>

----------------------------------------------------------------------------
(* finalize_round *)

ProposalInfo(proposal_id, proposer_address, voting_power) ==
    [proposal_id |-> proposal_id, proposer_address |-> proposer_address,
     voting_power |-> voting_power]

\* populate_proposal_info_arr collecting the cancelled proposals too
RECURSIVE populate_proposal_info_arr_keeps_cancelled(_, _, _, _)
populate_proposal_info_arr_keeps_cancelled(next_unused_proposal_nonce, current_proposal_id, current_index, acc) ==
    IF current_proposal_id = next_unused_proposal_nonce
    THEN [proposal_info_len |-> current_index + 1, acc |-> acc]
    ELSE populate_proposal_info_arr_keeps_cancelled(
            next_unused_proposal_nonce, current_proposal_id + 1, current_index + 1,
            Append(acc, ProposalInfo(current_proposal_id,
                                     proposer_address_registry_store[current_proposal_id],
                                     proposal_vote_power_store[current_proposal_id])))

\* Collects the proposals that were not cancelled into acc; returns the length it
\* reports for acc together with the cells of acc it has written.
RECURSIVE populate_proposal_info_arr(_, _, _, _)
populate_proposal_info_arr(next_unused_proposal_nonce, current_proposal_id, current_index, acc) ==
    IF current_proposal_id = next_unused_proposal_nonce
    THEN [proposal_info_len |-> current_index + 1, acc |-> acc]
    ELSE IF cancelled_proposals_store[current_proposal_id] = TRUE_
    THEN populate_proposal_info_arr(next_unused_proposal_nonce, current_proposal_id + 1,
                                    current_index, acc)
    ELSE populate_proposal_info_arr(
            next_unused_proposal_nonce, current_proposal_id + 1, current_index + 1,
            Append(acc, ProposalInfo(current_proposal_id,
                                     proposer_address_registry_store[current_proposal_id],
                                     proposal_vote_power_store[current_proposal_id])))

\* What a cell of the freshly allocated segment that was never written may hold
UninitProposalInfo ==
    {[proposal_id |-> 0, proposer_address |-> 0, voting_power |-> 0]}
    \cup [proposal_id : ProposalIds, proposer_address : Proposers, voting_power : {100}]

\* The array of proposal_info_len cells that select_winners is handed: the cells
\* populate_proposal_info_arr wrote, then the unwritten ones
active_submissions_read(populated, uninit) ==
    [i \in 1..populated.proposal_info_len |->
        IF i <= Len(populated.acc) THEN populated.acc[i] ELSE uninit]

\* RanksBefore without the tie-break on the proposal id
RanksBefore_power_only(a, b) == a.voting_power > b.voting_power

\* ProposalUtils.select_winners: a ranks before b
RanksBefore(a, b) ==
    \/ a.voting_power > b.voting_power
    \/ a.voting_power = b.voting_power /\ a.proposal_id < b.proposal_id

\* index of the cell that no other cell ranks before (the first one, among equal cells)
BestIndex(submissions) ==
    CHOOSE i \in 1..Len(submissions) :
        /\ \A j \in 1..Len(submissions) : ~RanksBefore(submissions[j], submissions[i])
        /\ \A j \in 1..(i - 1) : RanksBefore(submissions[i], submissions[j])

RemoveAt(seq, i) == SubSeq(seq, 1, i - 1) \o SubSeq(seq, i + 1, Len(seq))

RECURSIVE select_winners(_, _)
select_winners(num_winners, submissions) ==
    IF num_winners = 0 \/ Len(submissions) = 0
    THEN <<>>
    ELSE LET i == BestIndex(submissions)
         IN  <<submissions[i]>> \o select_winners(num_winners - 1, RemoveAt(submissions, i))

\* a hash that forgets the order of its input words (sorted-pair hashing)
Keccak_unordered(words) == <<"keccak", {words[i] : i \in 1..Len(words)}>>

\* keccak256 as an injective term constructor
Keccak(words) == <<"keccak", words>>

LeafOf(winner) ==
    Keccak(<<winner.proposal_id, winner.proposer_address, winner.voting_power>>)

\* ProposalUtils.generate_leaves
generate_leaves(winners_len, winners) ==
    [i \in 1..winners_len |-> LeafOf(winners[i])]

\* root of the subtree of all-zero leaves of the given height
ZeroNode(height) == <<"zero", height>>

\* MerkleTree.get_merkle_root: the root of the subtree of height log_n whose first
\* leaf is leaves[offset], missing leaves being the zero leaf
RECURSIVE get_merkle_root(_, _, _)
get_merkle_root(leaves, offset, log_n) ==
    IF offset >= Len(leaves)
    THEN ZeroNode(log_n)
    ELSE IF log_n = 0
    THEN leaves[offset + 1]
    ELSE Keccak(<<get_merkle_root(leaves, offset, log_n - 1),
                  get_merkle_root(leaves, offset + 2^(log_n - 1), log_n - 1)>>)

\* finalize_round_error with assert_le in place of assert_lt
finalize_round_error_le ==
    LET current_timestamp == now
    IN  IF ~assert_round_active THEN "Round not active"
        ELSE IF ~(vote_period_end_timestamp_store <= current_timestamp)
        THEN "Vote period has not ended"
        ELSE ""

finalize_round_error ==
    LET current_timestamp == now
    IN  IF ~assert_round_active THEN "Round not active"
        ELSE IF ~(vote_period_end_timestamp_store < current_timestamp)
        THEN "Vote period has not ended"
        ELSE ""

\* What finalize_round computes once its checks have passed and proposals exist,
\* for one content of the cells it reads without having written them
finalize_round_commitment(uninit) ==
    LET num_winners == winner_count_store
        next_unused_proposal_nonce == next_proposal_nonce_store
        populated == populate_proposal_info_arr(next_unused_proposal_nonce, 1, 0, <<>>)
        active_submissions == active_submissions_read(populated, uninit)
        active_submissions_len == populated.proposal_info_len
        winners == select_winners(num_winners, active_submissions)
        winners_len == MathUtils_min(num_winners, active_submissions_len)
        leaves == generate_leaves(winners_len, winners)
        merkle_root == get_merkle_root(leaves, 0, MAX_LOG_N_WINNERS)
    IN  [active_submissions |-> active_submissions,
         written |-> populated.acc,
         winners |-> SubSeq(winners, 1, winners_len),
         execution_params |-> <<round_id_store, merkle_root>>]

\* round_state_after_execute with the state written whatever execute answered
round_state_executed_regardless(execute_ok) == EXECUTED

\* The round state once IExecutionStrategy.execute has answered: the write of
\* EXECUTED follows the call, and a failed call reverts the transaction
round_state_after_execute(execute_ok) ==
    IF execute_ok THEN EXECUTED ELSE round_state_store

finalize_unchanged ==
    UNCHANGED <<now, round_id_store, proposal_period_start_timestamp_store,
                proposal_period_end_timestamp_store, vote_period_end_timestamp_store,
                winner_count_store, next_proposal_nonce_store, proposal_vote_power_store,
                spent_voting_power_store, proposer_address_registry_store,
                cancelled_proposals_store>>

\* finalize_round takes no caller check; caller_address is get_caller_address()
finalize_round(caller_address) ==
    LET err_message == finalize_round_error
        receipt(ok, err) == [op |-> "finalize_round", caller |-> caller_address,
                             ok |-> ok, err |-> err]
    IN  /\ pc = "idle"
        /\ pc' = "returned"
        /\ before' = Snapshot
        /\ finalize_unchanged
        /\ \/ /\ err_message # ""
              /\ last' = receipt(FALSE, err_message)
              /\ commitment' = <<>>
              /\ UNCHANGED <<round_state_store, execute_count, failed_attempt>>
           \/ \* If nonce 1 is unused, no proposals were received: return ()
              /\ err_message = ""
              /\ next_proposal_nonce_store = 1
              /\ last' = receipt(TRUE, "")
              /\ commitment' = <<>>
              /\ UNCHANGED <<round_state_store, execute_count, failed_attempt>>
           \/ \* the run stops at the read of a cell that was never written
              /\ err_message = ""
              /\ next_proposal_nonce_store # 1
              /\ last' = receipt(FALSE, "Unknown value for memory cell")
              /\ commitment' = <<>>
              /\ UNCHANGED <<round_state_store, execute_count, failed_attempt>>
           \/ \E uninit \in UninitProposalInfo, execute_ok \in BOOLEAN :
              /\ err_message = ""
              /\ next_proposal_nonce_store # 1
              /\ commitment' = <<finalize_round_commitment(uninit) @@
                                  [executed |-> execute_ok,
                                   \* the failed attempt a cancel_proposal followed
                                   previous |-> IF failed_attempt # <<>>
                                                   /\ failed_attempt[1].cancelled_since
                                                THEN failed_attempt ELSE <<>>]>>
              /\ IF execute_ok
                 THEN /\ round_state_store' = round_state_after_execute(execute_ok)
                      /\ execute_count' = execute_count + 1
                      /\ last' = receipt(TRUE, "")
                      /\ failed_attempt' = <<>>
                 ELSE /\ round_state_store' = round_state_after_execute(execute_ok)
                      /\ UNCHANGED execute_count
                      /\ last' = receipt(FALSE, "Execution strategy failed")
                      /\ failed_attempt' =
                             <<[execution_params |->
                                    finalize_round_commitment(uninit).execution_params,
                                written |-> finalize_round_commitment(uninit).written,
                                cancelled_since |-> FALSE]>>

----------------------------------------------------------------------------
(* Time, construction, next-state relation *)

NoReceipt == [op |-> "none", caller |-> "none", ok |-> TRUE, err |-> ""]

\* the sender has read the receipt of its call
Return ==
    /\ pc = "returned"
    /\ pc' = "idle"
    /\ last' = NoReceipt
    /\ before' = <<>>
    /\ commitment' = <<>>
    /\ UNCHANGED <<now, storage, execute_count, failed_attempt>>

\* a later block
Tick ==
    /\ pc = "idle"
    /\ now < MaxTime
    /\ now' = now + 1
    /\ UNCHANGED <<storage, execute_count, pc, last, before, failed_attempt, commitment>>

\* A felt is an element of the field of FeltPrime elements; FeltPrime stands for the
\* Cairo prime 2^251 + 17 * 2^192 + 1 and RangeCheckBound for 2^128.
Felt == 0 .. FeltPrime - 1

felt_add(a, b) == (a + b) % FeltPrime

felt_sub(a, b) == (a - b + FeltPrime) % FeltPrime

\* assert_nn(a): 0 <= a < RANGE_CHECK_BOUND
assert_nn(a) == a < RangeCheckBound

\* assert_le(a, b): assert_nn(b - a), the difference taken in the field
assert_le(a, b) == assert_nn(felt_sub(b, a))

\* The checks of the constructor
constructor_ok(current_timestamp, round_id, proposal_period_start_timestamp, proposal_period_duration, vote_period_duration, winner_count, execution_strategies_len) ==
    /\ assert_le(current_timestamp, proposal_period_start_timestamp)
    /\ round_id # 0
    /\ proposal_period_duration # 0
    /\ vote_period_duration # 0
    /\ winner_count # 0
    /\ assert_le(winner_count, MAX_WINNERS)
    /\ execution_strategies_len = 1

\* The contract address before its deployment: every storage cell reads 0
Undeployed ==
    /\ round_id_store = 0
    /\ next_proposal_nonce_store = 0

\* constructor(house_strategy_params, voting_strategy_hashes, execution_strategies):
\* a failing check reverts the deployment
constructor(round_id, proposal_period_start_timestamp, proposal_period_duration, vote_period_duration, winner_count, execution_strategies_len) ==
    LET ok == constructor_ok(now, round_id, proposal_period_start_timestamp,
                             proposal_period_duration, vote_period_duration,
                             winner_count, execution_strategies_len)
        proposal_period_end_timestamp ==
            felt_add(proposal_period_start_timestamp, proposal_period_duration)
        vote_period_end_timestamp ==
            felt_add(proposal_period_end_timestamp, vote_period_duration)
    IN  /\ pc = "idle"
        /\ Undeployed
        /\ pc' = "returned"
        /\ before' = Snapshot
        /\ IF ok
           THEN /\ round_id_store' = round_id
                /\ proposal_period_start_timestamp_store' = proposal_period_start_timestamp
                /\ proposal_period_end_timestamp_store' = proposal_period_end_timestamp
                /\ vote_period_end_timestamp_store' = vote_period_end_timestamp
                /\ winner_count_store' = winner_count
                /\ next_proposal_nonce_store' = 1
           ELSE UNCHANGED <<round_id_store, proposal_period_start_timestamp_store,
                            proposal_period_end_timestamp_store,
                            vote_period_end_timestamp_store, winner_count_store,
                            next_proposal_nonce_store>>
        /\ last' = [op |-> "constructor", caller |-> "deployer", ok |-> ok,
                    err |-> IF ok THEN "" ELSE "Invalid constructor parameters",
                    execution_strategies_len |-> execution_strategies_len]
        /\ UNCHANGED <<now, round_state_store, proposal_vote_power_store,
                       spent_voting_power_store, proposer_address_registry_store,
                       cancelled_proposals_store, execute_count, failed_attempt,
                       commitment>>

Init ==
    \E round_id \in {1}, proposal_period_start_timestamp \in {1},
       proposal_period_duration \in {2}, vote_period_duration \in {2},
       winner_count \in WinnerCounts :
        /\ now = 0
        /\ constructor_ok(now, round_id, proposal_period_start_timestamp,
                          proposal_period_duration, vote_period_duration, winner_count, 1)
        /\ round_id_store = round_id
        /\ round_state_store = ACTIVE
        /\ proposal_period_start_timestamp_store = proposal_period_start_timestamp
        /\ proposal_period_end_timestamp_store =
               proposal_period_start_timestamp + proposal_period_duration
        /\ vote_period_end_timestamp_store =
               proposal_period_start_timestamp + proposal_period_duration
                   + vote_period_duration
        /\ winner_count_store = winner_count
        /\ next_proposal_nonce_store = 1
        /\ proposal_vote_power_store = [id \in ProposalIds |-> 0]
        /\ spent_voting_power_store = [v \in Voters |-> 0]
        /\ proposer_address_registry_store = [id \in ProposalIds |-> 0]
        /\ cancelled_proposals_store = [id \in ProposalIds |-> 0]
        /\ execute_count = 0
        /\ pc = "returned"
        /\ last = [op |-> "constructor", caller |-> "deployer", ok |-> TRUE, err |-> "",
                   execution_strategies_len |-> 1]
        /\ before = <<>>
        /\ failed_attempt = <<>>
        /\ commitment = <<>>

Next ==
    \/ Return
    \/ Tick
    \/ \E caller_address \in Callers, proposer_address \in Proposers :
          propose(caller_address, proposer_address)
    \/ \E caller_address \in Callers :
          \* a call that fails before it reads its arguments fails the same way for
          \* all of them
          IF cast_votes_entry_error(caller_address) # ""
          THEN cast_votes(caller_address, 1, <<>>)
          ELSE \E voter_address \in Voters :
                  IF ~cast_votes_outcome(caller_address, voter_address, <<>>).ok
                  THEN cast_votes(caller_address, voter_address, <<>>)
                  ELSE \E proposal_votes \in ProposalVotes :
                          cast_votes(caller_address, voter_address, proposal_votes)
    \/ \E caller_address \in Callers, requester \in Requesters,
          proposal_id \in ProposalIds :
          cancel_proposal(caller_address, requester, proposal_id)
    \/ \E caller_address \in Callers, requester \in Requesters :
          cancel_round(caller_address, requester)
    \/ \E caller_address \in Callers : finalize_round(caller_address)

Spec == Init /\ [][Next]_vars

\* ---- settlement: the round with a keeper ----
\* One auth strategy forwards the calls; votes come one entry at a time from voter 1.
Keeper == ETH_TX_AUTH_STRATEGY
SingleVotes == {proposal_votes \in ProposalVotes : Len(proposal_votes) = 1}

\* a finalize_round call whose execute call, if it gets that far, succeeds
finalize_round_executing ==
    /\ finalize_round(Keeper)
    /\ commitment' # <<>> => commitment'[1].executed

NextSettlement ==
    \/ Return
    \/ Tick
    \/ \E proposer_address \in Proposers : propose(Keeper, proposer_address)
    \/ /\ pc = "idle"
       /\ \E proposal_votes \in SingleVotes : cast_votes(Keeper, 1, proposal_votes)
    \/ \E proposal_id \in ProposalIds : cancel_proposal(Keeper, 1, proposal_id)
    \/ finalize_round(Keeper)

\* Blocks keep coming, receipts are read, finalize_round is called again and again,
\* and the execute call does not fail for ever.
SpecSettlement ==
    /\ Init
    /\ [][NextSettlement]_vars
    /\ WF_vars(Tick)
    /\ WF_vars(Return)
    /\ SF_vars(finalize_round(Keeper))
    /\ SF_vars(finalize_round_executing)

\* ---- deployment: the constructor over its felt parameters ----
RoundIds == {0, 1}
StartTimestamps == {0, 2}
Durations == {0, 2, FeltPrime - 1}
ConstructorWinnerCounts == {0, 2, MAX_WINNERS, MAX_WINNERS + 1, FeltPrime - 1}
ExecutionStrategiesLens == {0, 1, 2}

InitUndeployed ==
    /\ now = 0
    /\ round_id_store = 0
    /\ round_state_store = ACTIVE
    /\ proposal_period_start_timestamp_store = 0
    /\ proposal_period_end_timestamp_store = 0
    /\ vote_period_end_timestamp_store = 0
    /\ winner_count_store = 0
    /\ next_proposal_nonce_store = 0
    /\ proposal_vote_power_store = [id \in ProposalIds |-> 0]
    /\ spent_voting_power_store = [v \in Voters |-> 0]
    /\ proposer_address_registry_store = [id \in ProposalIds |-> 0]
    /\ cancelled_proposals_store = [id \in ProposalIds |-> 0]
    /\ execute_count = 0
    /\ pc = "idle"
    /\ last = NoReceipt
    /\ before = <<>>
    /\ failed_attempt = <<>>
    /\ commitment = <<>>

NextConstructor ==
    \/ Return
    \/ Tick
    \/ /\ pc = "idle"
       /\ \E round_id \in RoundIds, proposal_period_start_timestamp \in StartTimestamps,
             proposal_period_duration \in Durations, vote_period_duration \in Durations,
             winner_count \in ConstructorWinnerCounts,
             execution_strategies_len \in ExecutionStrategiesLens :
             constructor(round_id, proposal_period_start_timestamp,
                         proposal_period_duration, vote_period_duration,
                         winner_count, execution_strategies_len)

SpecConstructor == InitUndeployed /\ [][NextConstructor]_vars

\* ---- vote accounting at the ends of the word ----
\* The vote window of a round with two proposals, the storage as calls under other
\* answers of the voting strategy can have left it: powers at the top of the word,
\* spent powers above what the strategy now reports.
PowerLevels == {0, MaxUint - 50, MaxUint}
SpentLevels == {0, 100, 200}

InitArithmetic ==
    /\ now = 4
    /\ round_id_store = 1
    /\ round_state_store = ACTIVE
    /\ proposal_period_start_timestamp_store = 1
    /\ proposal_period_end_timestamp_store = 3
    /\ vote_period_end_timestamp_store = 5
    /\ winner_count_store = 2
    /\ next_proposal_nonce_store = 3
    /\ \E power1 \in PowerLevels, power2 \in PowerLevels :
          proposal_vote_power_store =
             [id \in ProposalIds |-> IF id = 1 THEN power1 ELSE IF id = 2 THEN power2 ELSE 0]
    /\ \E spent1 \in SpentLevels, spent2 \in SpentLevels :
          spent_voting_power_store =
             [v \in Voters |-> IF v = 1 THEN spent1 ELSE IF v = 2 THEN spent2 ELSE 0]
    /\ proposer_address_registry_store = [id \in ProposalIds |-> IF id <= 2 THEN 1 ELSE 0]
    /\ cancelled_proposals_store = [id \in ProposalIds |-> 0]
    /\ execute_count = 0
    /\ pc = "idle"
    /\ last = NoReceipt
    /\ before = <<>>
    /\ failed_attempt = <<>>
    /\ commitment = <<>>

NextArithmetic ==
    \/ Return
    \/ /\ pc = "idle"
       /\ \E caller_address \in Callers, voter_address \in Voters,
             proposal_votes \in ProposalVotes :
             cast_votes(caller_address, voter_address, proposal_votes)

SpecArithmetic == InitArithmetic /\ [][NextArithmetic]_vars

----------------------------------------------------------------------------
(* The two library functions finalize_round calls, applied to inputs of their own *)

\* the arrays of submissions select_winners may be handed: no id twice
ProposalInfoCells ==
    [proposal_id : ProposalIds, proposer_address : Proposers, voting_power : VoteAmounts]
Submissions ==
    {submissions \in UNION {[1..n -> ProposalInfoCells] : n \in 0..MaxProposals} :
        \A i, j \in 1..Len(submissions) :
            submissions[i].proposal_id = submissions[j].proposal_id => i = j}

Permuted(seq, p) == [i \in 1..Len(seq) |-> seq[p[i]]]
Swapped(seq, i, j) ==
    [k \in 1..Len(seq) |-> IF k = i THEN seq[j] ELSE IF k = j THEN seq[i] ELSE seq[k]]

LibraryReceipt(op) == [op |-> op, caller |-> "library", ok |-> TRUE, err |-> ""]

\* select_winners on an array and on the same array in another order
select_winners_call(num_winners, submissions, p) ==
    /\ pc = "idle"
    /\ pc' = "returned"
    /\ last' = LibraryReceipt("select_winners")
    /\ before' = <<>>
    /\ commitment' =
          <<[num_winners |-> num_winners,
             active_submissions |-> submissions,
             winners |-> select_winners(num_winners, submissions),
             permuted_submissions |-> Permuted(submissions, p),
             permuted_winners |-> select_winners(num_winners, Permuted(submissions, p))]>>
    /\ UNCHANGED <<now, storage, execute_count, failed_attempt>>

\* generate_leaves and get_merkle_root on the winners, and on the winners with the
\* entries at i and j exchanged
get_merkle_root_call(winners, i, j) ==
    LET leaves == generate_leaves(Len(winners), winners)
        swapped_leaves == Swapped(leaves, i, j)
    IN  /\ pc = "idle"
        /\ pc' = "returned"
        /\ last' = LibraryReceipt("get_merkle_root")
        /\ before' = <<>>
        /\ commitment' =
              <<[leaves |-> leaves,
                 merkle_root |-> get_merkle_root(leaves, 0, MAX_LOG_N_WINNERS),
                 swapped_leaves |-> swapped_leaves,
                 swapped_merkle_root |->
                     get_merkle_root(swapped_leaves, 0, MAX_LOG_N_WINNERS)]>>
        /\ UNCHANGED <<now, storage, execute_count, failed_attempt>>

NextLibrary ==
    \/ Return
    \/ /\ pc = "idle"
       /\ \E num_winners \in 0..(MaxProposals + 1), submissions \in Submissions :
             \E p \in Permutations(1..Len(submissions)) :
                 select_winners_call(num_winners, submissions, p)
    \/ /\ pc = "idle"
       /\ \E winners \in Submissions :
             \E i, j \in 1..Len(winners) : get_merkle_root_call(winners, i, j)

SpecLibrary == Init /\ [][NextLibrary]_vars

----------------------------------------------------------------------------
(* Properties *)

Whitelist == {ETH_TX_AUTH_STRATEGY, ETH_SIG_AUTH_STRATEGY}
SnapshotVotingPower(voter_address) ==
    OracleVotingPower(proposal_period_end_timestamp_store, voter_address)
Exists(proposal_id) == proposer_address_registry_store[proposal_id] # 0
NotCancelled ==
    {id \in ProposalIds : Exists(id) /\ cancelled_proposals_store[id] = 0}
Committed == commitment # <<>>
NamesMissingProposal(proposal_votes) ==
    \E i \in 1..Len(proposal_votes) : ~Exists(proposal_votes[i].proposal_id)

\* a call has just returned (the constructor aside)
Called == pc = "returned" /\ last.op # "constructor"

\* C1: every voter's spent voting power is at most the power the oracle reports
\* for the voter at the snapshot, in every state, and a cast_votes call that fails
\* (as one that would overspend does) leaves the spent power as it was.
C1_SpentWithinSnapshotPower ==
    /\ \A v \in Voters : spent_voting_power_store[v] <= SnapshotVotingPower(v)
    /\ (Called /\ last.op = "cast_votes" /\ ~last.ok)
          => /\ spent_voting_power_store = before.spent_voting_power
             /\ proposal_vote_power_store = before.proposal_vote_power

\* a voter who has spent some power was refused a batch that asks for more than is left
C1_Witness ==
    /\ last.op = "cast_votes"
    /\ last.err = "Not enough voting power remaining for user"
    /\ \E v \in Voters : spent_voting_power_store[v] > 0

\* C2 (as claimed): a cast_votes batch naming, at any position, a proposal that does
\* not exist fails and changes no accumulated and no spent voting power.
C2_MissingProposalFailsBatch ==
    [][ \A caller_address \in Callers, voter_address \in Voters,
           proposal_votes \in ProposalVotes :
            (/\ NamesMissingProposal(proposal_votes)
             /\ cast_votes(caller_address, voter_address, proposal_votes))
            => (/\ ~(last'.ok)
                /\ UNCHANGED <<proposal_vote_power_store, spent_voting_power_store>>) ]_vars

\* C3 (as claimed): a finalize_round call on an ACTIVE round with now > votePeriodEnd
\* and no proposal ever created (nonce still 1) succeeds and leaves the round EXECUTED.
C3_EmptyRoundFinalizesToExecuted ==
    (/\ Called /\ last.op = "finalize_round"
     /\ before.round_state = ACTIVE
     /\ now > vote_period_end_timestamp_store
     /\ next_proposal_nonce_store = 1)
        => (last.ok /\ round_state_store = EXECUTED)

C5_TerminalStatesAreFinal ==
    (Called /\ before.round_state \in {EXECUTED, CANCELLED})
        => (~last.ok /\ Snapshot = before)

\* a call was refused on an executed round that holds proposals and votes
C5_Witness ==
    /\ Called
    /\ before.round_state = EXECUTED
    /\ round_state_store = EXECUTED
    /\ last.op = "cancel_round"
    /\ last.caller \in Whitelist
    /\ last.err = "Round not active"
    /\ \E id \in ProposalIds : proposal_vote_power_store[id] > 0

\* C6 (as claimed): no call of propose, cast_votes, cancel_proposal, cancel_round or
\* finalize_round by a caller outside the whitelist succeeds or changes the state.
C6_EveryOperationNeedsWhitelistedCaller ==
    (Called /\ last.caller \notin Whitelist) => (~last.ok /\ Snapshot = before)

\* C6 (amended): no call of propose, cast_votes, cancel_proposal or cancel_round by a
\* caller outside the whitelist succeeds or changes the state; each fails with
\* "Invalid auth strategy".
C6_GuardedOperationsNeedWhitelistedCaller ==
    (/\ Called
     /\ last.op \in {"propose", "cast_votes", "cancel_proposal", "cancel_round"}
     /\ last.caller \notin Whitelist)
        => (~last.ok /\ last.err = "Invalid auth strategy" /\ Snapshot = before)

\* a caller outside the whitelist was refused a cancel_round on an active round
C6_Witness ==
    /\ last.op = "cancel_round"
    /\ last.caller = OtherCaller
    /\ last.err = "Invalid auth strategy"
    /\ round_state_store = ACTIVE

\* C7 (as claimed): no entry of the array handed to winner selection, and no
\* committed winner, names a cancelled proposal.
C7_CancelledNeverRanked ==
    Committed =>
        /\ \A i \in 1..Len(commitment[1].active_submissions) :
              commitment[1].active_submissions[i].proposal_id \in ProposalIds
                => cancelled_proposals_store[
                       commitment[1].active_submissions[i].proposal_id] = 0
        /\ \A i \in 1..Len(commitment[1].winners) :
              commitment[1].winners[i].proposal_id \in ProposalIds
                => cancelled_proposals_store[commitment[1].winners[i].proposal_id] = 0

\* C8 (as claimed): the number of winners committed is
\* min(winnerCount, number of existing proposals that are not cancelled).
C8_WinnerCountIsMin ==
    Committed =>
        Len(commitment[1].winners)
            = MathUtils_min(winner_count_store, Cardinality(NotCancelled))

\* C9 (as claimed): the committed winners are the top winnerCount proposals that are
\* not cancelled, by accumulated power descending, the lower id first among equals.
C9_WinnersAreTopRanked ==
    Committed =>
        LET winners == commitment[1].winners
            StoredInfo(id) == ProposalInfo(id, proposer_address_registry_store[id],
                                           proposal_vote_power_store[id])
        IN  /\ \A i \in 1..Len(winners) :
                  /\ winners[i].proposal_id \in NotCancelled
                  /\ winners[i] = StoredInfo(winners[i].proposal_id)
            /\ \A i, j \in 1..Len(winners) : i < j => RanksBefore(winners[i], winners[j])
            /\ \A id \in NotCancelled :
                  (\A i \in 1..Len(winners) : winners[i].proposal_id # id)
                    => /\ Len(winners) = winner_count_store
                       /\ \A i \in 1..Len(winners) : RanksBefore(winners[i], StoredInfo(id))

\* C10 (as claimed): with winnerCount = 2 and P1 = 100, P2 = 50, P3 = 100 the winners
\* are P1 then P3, and P1 then P2 if P3 was cancelled.
C10_ExampleRound ==
    (/\ Committed
     /\ winner_count_store = 2
     /\ next_proposal_nonce_store = 4
     /\ proposal_vote_power_store = (1 :> 100 @@ 2 :> 50 @@ 3 :> 100)
     /\ cancelled_proposals_store[1] = 0 /\ cancelled_proposals_store[2] = 0)
    => LET ids == [i \in 1..Len(commitment[1].winners) |->
                        commitment[1].winners[i].proposal_id]
       IN  ids = IF cancelled_proposals_store[3] = 0 THEN <<1, 3>> ELSE <<1, 2>>

\* C11: select_winners returns the same ordered list of winners for every order of
\* the same entries, whatever the number of winners asked for.
C11_SelectionIsOrderIndependent ==
    last.op = "select_winners"
        => commitment[1].permuted_winners = commitment[1].winners

\* a tie between two entries was ranked from both orders of the array
C11_Witness ==
    /\ last.op = "select_winners"
    /\ commitment[1].num_winners = 1
    /\ Len(commitment[1].active_submissions) = 2
    /\ commitment[1].active_submissions[1].voting_power
           = commitment[1].active_submissions[2].voting_power
    /\ commitment[1].permuted_submissions # commitment[1].active_submissions
    /\ commitment[1].winners = <<commitment[1].active_submissions[2]>>

\* C12: the Merkle root of the winners' leaves changes when two distinct leaves
\* exchange their positions, and is the same for the same leaves in the same order.
C12_MerkleRootIsOrderSensitive ==
    last.op = "get_merkle_root"
        => (commitment[1].swapped_merkle_root = commitment[1].merkle_root
               <=> commitment[1].swapped_leaves = commitment[1].leaves)

\* two distinct leaves of a list of three exchanged their positions
C12_Witness ==
    /\ last.op = "get_merkle_root"
    /\ Len(commitment[1].leaves) = 3
    /\ commitment[1].swapped_leaves # commitment[1].leaves
    /\ commitment[1].swapped_merkle_root # commitment[1].merkle_root

\* C13 (as claimed): a finalize_round attempt that follows one whose execute call
\* failed, with no vote and no cancel_proposal succeeding in between, passes the same
\* (roundId, merkleRoot) to the execution strategy as the failed attempt did.
C13_RetryPassesSameParams ==
    [][ (/\ failed_attempt # <<>>
         /\ ~failed_attempt[1].cancelled_since
         /\ last'.op = "finalize_round"
         /\ commitment' # <<>>)
        => commitment'[1].execution_params = failed_attempt[1].execution_params ]_vars

\* C14: a cancel_proposal call for a proposal that is already cancelled fails and
\* leaves the persisted state as it was; so the second of two cancel_proposal calls
\* for the same id fails.
C14_DoubleCancelFails ==
    (/\ Called
     /\ last.op = "cancel_proposal"
     /\ before.cancelled_proposals[last.proposal_id] # 0)
        => (~last.ok /\ Snapshot = before)

\* a whitelisted caller was refused the second cancellation of a proposal
C14_Witness ==
    /\ Called
    /\ last.op = "cancel_proposal"
    /\ last.caller \in Whitelist
    /\ before.round_state = ACTIVE
    /\ before.cancelled_proposals[last.proposal_id] = 1
    /\ last.err = "Proposal already cancelled"

\* C15: a call of propose, cast_votes, cancel_proposal, cancel_round or
\* finalize_round that fails, for whatever reason and also in the middle of a vote
\* batch, leaves the whole persisted state as it was before the call.
C15_FailedCallChangesNothing ==
    (Called /\ ~last.ok) => Snapshot = before

\* a vote batch was refused for want of power by a voter who had spent nothing: the
\* amounts of the model do not exceed a voter's whole power, so an earlier entry of
\* the same batch had been applied
C15_Witness ==
    /\ Called
    /\ last.op = "cast_votes"
    /\ last.err = "Not enough voting power remaining for user"
    /\ \A v \in Voters : before.spent_voting_power[v] = 0
    /\ \A amount \in VoteAmounts, v \in Voters :
          SnapshotVotingPower(v) # 0 => amount <= SnapshotVotingPower(v)

\* C16: the round state becomes EXECUTED only in a finalize_round call whose execute
\* call succeeded; when the execute call fails, finalize_round fails and the round
\* stays ACTIVE, and a later finalize_round call can still succeed.
C16_ExecutedOnlyAfterExecuteSucceeds ==
    /\ (pc = "returned" /\ last.op = "constructor") => round_state_store # EXECUTED
    /\ (Called /\ round_state_store = EXECUTED /\ before.round_state # EXECUTED)
          => (/\ last.op = "finalize_round" /\ last.ok
              /\ Committed /\ commitment[1].executed
              /\ execute_count = before.execute_count + 1)
    /\ (Called /\ last.op = "finalize_round" /\ Committed /\ ~commitment[1].executed)
          => (~last.ok /\ round_state_store = ACTIVE /\ Snapshot = before)
    /\ (pc = "idle" /\ failed_attempt # <<>>)
          => \* the checks of finalize_round pass, and it goes on to the execute call
             (finalize_round_error = "" /\ next_proposal_nonce_store # 1)

\* the execute call of a finalize_round failed
C16_Witness ==
    /\ Called
    /\ last.op = "finalize_round"
    /\ last.err = "Execution strategy failed"
    /\ Committed /\ ~commitment[1].executed
    /\ round_state_store = ACTIVE
    /\ \E id \in ProposalIds : proposal_vote_power_store[id] > 0

\* C17: over the life of a round execute succeeds at most once, and a finalize_round
\* call that succeeds has invoked it at most once.
C17_ExecuteAtMostOnce ==
    /\ execute_count <= 1
    /\ (Called /\ last.op = "finalize_round" /\ last.ok)
          => execute_count - before.execute_count \in {0, 1}

\* a second finalize_round was refused after the one that executed
C17_Witness ==
    /\ Called
    /\ last.op = "finalize_round"
    /\ before.round_state = EXECUTED
    /\ before.execute_count = 1
    /\ ~last.ok
    /\ execute_count = 1

\* C18: propose succeeds only when proposalPeriodStart <= now < proposalPeriodEnd;
\* outside that window it fails and neither the registry nor the nonce changes.
C18_ProposeOnlyInProposalPeriod ==
    (/\ Called
     /\ last.op = "propose"
     /\ ~(/\ proposal_period_start_timestamp_store <= now
          /\ now < proposal_period_end_timestamp_store))
        => (/\ ~last.ok
            /\ proposer_address_registry_store = before.proposer_address_registry
            /\ next_proposal_nonce_store = before.next_proposal_nonce
            /\ Snapshot = before)

\* a whitelisted caller was refused a proposal at the instant the period ends
C18_Witness ==
    /\ Called
    /\ last.op = "propose"
    /\ last.caller \in Whitelist
    /\ now = proposal_period_end_timestamp_store
    /\ last.err = "Proposal period has ended"
    /\ next_proposal_nonce_store > 1

C20_OracleQueriedOnceAtSnapshot ==
    (Called /\ last.op = "cast_votes")
        => /\ \A i \in 1..Len(last.oracle_queries) :
                 last.oracle_queries[i] = proposal_period_end_timestamp_store
           /\ Len(last.oracle_queries) <= 1
           /\ (\/ last.ok
               \/ /\ last.caller \in Whitelist
                  /\ before.round_state = ACTIVE
                  /\ proposal_period_end_timestamp_store < now
                  /\ now < vote_period_end_timestamp_store)
                 => Len(last.oracle_queries) = 1

\* a batch of two entries was cast after the snapshot instant with a single query
C20_Witness ==
    /\ Called
    /\ last.op = "cast_votes"
    /\ last.ok
    /\ now > proposal_period_end_timestamp_store
    /\ last.oracle_queries = <<proposal_period_end_timestamp_store>>
    /\ \E id1, id2 \in ProposalIds :
          /\ id1 # id2
          /\ proposal_vote_power_store[id1] > before.proposal_vote_power[id1]
          /\ proposal_vote_power_store[id2] > before.proposal_vote_power[id2]

C22_ConstructedRoundIsWellFormed ==
    /\ (pc = "returned" /\ last.op = "constructor" /\ last.ok)
          => /\ now <= proposal_period_start_timestamp_store
             /\ last.execution_strategies_len = 1
    /\ ~Undeployed
          => /\ round_id_store # 0
             /\ 1 <= winner_count_store
             /\ winner_count_store <= MAX_WINNERS
             /\ proposal_period_start_timestamp_store < proposal_period_end_timestamp_store
             /\ proposal_period_end_timestamp_store < vote_period_end_timestamp_store

\* C23: cancel_proposal succeeds only when it is requested by the creator of the
\* proposal; requested by anyone else it fails.
C23_OnlyProposerCancelsProposal ==
    [][\A caller_address \in Callers, requester \in Requesters, proposal_id \in ProposalIds :
          (/\ requester # proposer_address_registry_store[proposal_id]
           /\ cancel_proposal(caller_address, requester, proposal_id))
             => ~last'.ok]_vars

\* C24: cancel_round succeeds only when it is requested by the round initiator, through
\* a whitelisted auth strategy, on an ACTIVE round, and then leaves the round CANCELLED.
C24_OnlyInitiatorCancelsRound ==
    [][\A caller_address \in Callers, requester \in Requesters :
          (cancel_round(caller_address, requester) /\ last'.ok)
             => /\ requester = RoundInitiator
                /\ caller_address \in Whitelist
                /\ round_state_store = ACTIVE
                /\ round_state_store' = CANCELLED]_vars

\* C25: cancel_proposal has no time window: called by a whitelisted auth strategy for
\* an existing, not yet cancelled proposal of an ACTIVE round it succeeds and sets the
\* flag, whatever the timestamp.
C25_CancelProposalAtAnyTime ==
    /\ (/\ Called
        /\ last.op = "cancel_proposal"
        /\ last.caller \in Whitelist
        /\ before.round_state = ACTIVE
        /\ before.proposer_address_registry[last.proposal_id] # 0
        /\ before.cancelled_proposals[last.proposal_id] = 0)
          => /\ last.ok
             /\ cancelled_proposals_store[last.proposal_id] = 1
    /\ (pc = "idle" /\ round_state_store = ACTIVE)
          => \A caller_address \in Whitelist, proposal_id \in ProposalIds :
                (Exists(proposal_id) /\ cancelled_proposals_store[proposal_id] = 0)
                   => cancel_proposal_error(caller_address, proposal_id) = ""

\* a proposal was cancelled after the end of the vote period, the round not finalized
C25_Witness ==
    /\ Called
    /\ last.op = "cancel_proposal"
    /\ last.ok
    /\ now > vote_period_end_timestamp_store
    /\ round_state_store = ACTIVE

\* C26: the accumulated power of a proposal and the spent power of a voter start at 0
\* and no call ever lowers either.
C26_PowerNeverDecreases ==
    /\ (pc = "returned" /\ last.op = "constructor")
          => /\ \A id \in ProposalIds : proposal_vote_power_store[id] = 0
             /\ \A voter_address \in Voters : spent_voting_power_store[voter_address] = 0
    /\ Called
          => /\ \A id \in ProposalIds :
                   proposal_vote_power_store[id] >= before.proposal_vote_power[id]
             /\ \A voter_address \in Voters :
                   spent_voting_power_store[voter_address]
                      >= before.spent_voting_power[voter_address]

\* a voter who had spent power before spent more, on a proposal that had power before
C26_Witness ==
    /\ Called
    /\ last.op = "cast_votes"
    /\ last.ok
    /\ \E voter_address \in Voters :
          /\ before.spent_voting_power[voter_address] > 0
          /\ spent_voting_power_store[voter_address]
                > before.spent_voting_power[voter_address]
    /\ \E id \in ProposalIds :
          /\ before.proposal_vote_power[id] > 0
          /\ proposal_vote_power_store[id] > before.proposal_vote_power[id]

\* C27: a cancelled flag, once set, stays set; a cancellation leaves the proposer
\* address and the accumulated power of the proposal stored; a recorded proposer
\* address is never overwritten (propose writes only an entry that was empty).
C27_CancelledAndProposerArePermanent ==
    /\ \A id \in ProposalIds : cancelled_proposals_store[id] # 0 => Exists(id)
    /\ Called
          => /\ \A id \in ProposalIds :
                   /\ before.cancelled_proposals[id] # 0
                         => cancelled_proposals_store[id] = before.cancelled_proposals[id]
                   /\ before.proposer_address_registry[id] # 0
                         => proposer_address_registry_store[id]
                               = before.proposer_address_registry[id]
             /\ (last.op = "propose" /\ last.ok)
                   => before.proposer_address_registry[before.next_proposal_nonce] = 0
             /\ (last.op = "cancel_proposal" /\ last.ok)
                   => /\ proposer_address_registry_store = before.proposer_address_registry
                      /\ proposal_vote_power_store = before.proposal_vote_power

\* a proposal that had received votes was cancelled
C27_Witness ==
    /\ Called
    /\ last.op = "cancel_proposal"
    /\ last.ok
    /\ Exists(last.proposal_id)
    /\ proposal_vote_power_store[last.proposal_id] > 0
    /\ \E id \in ProposalIds : before.cancelled_proposals[id] # 0

\* C28: whenever the oracle reports zero voting power for the voter at the snapshot,
\* cast_votes fails and changes nothing, whoever calls and whatever the batch holds,
\* the empty batch included.
C28_ZeroPowerVoterFails ==
    /\ pc = "idle"
          => \A caller_address \in Callers, voter_address \in Voters,
                proposal_votes \in ProposalVotes :
                SnapshotVotingPower(voter_address) = 0
                   => LET r == cast_votes_outcome(caller_address, voter_address, proposal_votes)
                      IN  /\ ~r.ok
                          /\ r.power = proposal_vote_power_store
                          /\ r.spent = spent_voting_power_store
                          /\ r.emitted = <<>>
    /\ (Called /\ last.op = "cast_votes" /\ last.err = "No voting power for user")
          => /\ ~last.ok
             /\ Snapshot = before

\* a voter without voting power at the snapshot was refused in the vote window
C28_Witness ==
    /\ Called
    /\ last.op = "cast_votes"
    /\ ~last.ok
    /\ last.err = "No voting power for user"
    /\ \E voter_address \in Voters : SnapshotVotingPower(voter_address) = 0

\* the batch has an entry for a cancelled proposal or an entry of power 0
HasCancelledOrZeroEntry(proposal_votes) ==
    \E i \in 1..Len(proposal_votes) :
       \/ cancelled_proposals_store[proposal_votes[i].proposal_id] # 0
       \/ proposal_votes[i].voting_power = 0

\* C29: a batch with an entry whose proposal is cancelled, or whose power is 0, fails
\* as a whole and writes nothing; so no call adds power to a proposal that was
\* cancelled before it.
C29_CancelledOrZeroEntryFailsBatch ==
    /\ pc = "idle"
          => \A caller_address \in Callers, voter_address \in Voters,
                proposal_votes \in ProposalVotes :
                HasCancelledOrZeroEntry(proposal_votes)
                   => LET r == cast_votes_outcome(caller_address, voter_address, proposal_votes)
                      IN  /\ ~r.ok
                          /\ r.power = proposal_vote_power_store
                          /\ r.spent = spent_voting_power_store
    /\ Called
          => \A id \in ProposalIds :
                before.cancelled_proposals[id] # 0
                   => proposal_vote_power_store[id] = before.proposal_vote_power[id]

\* a batch was refused for a cancelled proposal that had received votes, while another
\* proposal was open to votes
C29_Witness ==
    /\ Called
    /\ last.op = "cast_votes"
    /\ ~last.ok
    /\ last.err = "Proposal has been cancelled"
    /\ \E id \in ProposalIds :
          cancelled_proposals_store[id] # 0 /\ proposal_vote_power_store[id] > 0
    /\ NotCancelled # {}

\* the ids of the proposals in a list of cells
IdsOf(cells) == {cells[i].proposal_id : i \in 1..Len(cells)}

\* C30: two finalize_round attempts on the same round can commit to different winner
\* lists: an attempt that ranks at least one proposal and picks two winners has the
\* best of the proposals it collected among them, and when a cancel_proposal succeeded
\* after an attempt that failed on the execute call, the retry collects the proposals
\* of the failed attempt without the cancelled ones, so it ranks another list.
C30_RetryAfterCancelRanksAnew ==
    /\ (Called /\ last.op = "finalize_round" /\ Committed
        /\ commitment[1].written # <<>> /\ winner_count_store >= 2)
          => \E i \in 1..Len(commitment[1].winners) :
                commitment[1].winners[i]
                   = commitment[1].written[BestIndex(commitment[1].written)]
    /\ (Called /\ last.op = "finalize_round" /\ Committed /\ commitment[1].previous # <<>>)
          => LET retry == commitment[1]
                 failed == commitment[1].previous[1]
             IN  /\ retry.written # failed.written
                 /\ IdsOf(retry.written) \subseteq IdsOf(failed.written)
                 /\ \E id \in IdsOf(failed.written) \ IdsOf(retry.written) :
                       cancelled_proposals_store[id] # 0
                 /\ \A id \in IdsOf(retry.written) : cancelled_proposals_store[id] = 0

\* the best proposal of an attempt that failed on the execute call, one of its winners,
\* was cancelled before the retry, and the retry, whose execute call succeeded,
\* committed to a winner list that does not name it
C30_Witness ==
    /\ Called
    /\ last.op = "finalize_round"
    /\ last.ok
    /\ Committed
    /\ commitment[1].executed
    /\ commitment[1].previous # <<>>
    /\ winner_count_store >= 2
    /\ LET retry == commitment[1]
           failed == commitment[1].previous[1]
           best == failed.written[BestIndex(failed.written)]
       IN  /\ cancelled_proposals_store[best.proposal_id] # 0
           /\ retry.winners # <<>>
           /\ \A i \in 1..Len(retry.winners) :
                 retry.winners[i].proposal_id # best.proposal_id

\* the power a batch gives to one proposal
RECURSIVE BatchPower(_, _)
BatchPower(proposal_votes, id) ==
    IF proposal_votes = <<>> THEN 0
    ELSE (IF Head(proposal_votes).proposal_id = id
          THEN Head(proposal_votes).voting_power ELSE 0)
         + BatchPower(Tail(proposal_votes), id)

RECURSIVE SumOf(_, _)
SumOf(f, S) ==
    IF S = {} THEN 0
    ELSE LET x == CHOOSE y \in S : TRUE IN f[x] + SumOf(f, S \ {x})

\* C31: vote accounting never wraps: a batch that would take the accumulated power of
\* a proposal above the largest value of the word, and a call for a voter whose stored
\* spent power is above the total the oracle reports, fail and store nothing; what a
\* successful call stores is the exact sum, within the word.
C31_VoteAccountingNeverWraps ==
    /\ \A id \in ProposalIds : proposal_vote_power_store[id] \in 0..MaxUint
    /\ \A voter_address \in Voters : spent_voting_power_store[voter_address] \in 0..MaxUint
    /\ pc = "idle"
          => \A caller_address \in Callers, voter_address \in Voters,
                proposal_votes \in ProposalVotes :
                (\/ spent_voting_power_store[voter_address]
                       > SnapshotVotingPower(voter_address)
                 \/ \E id \in ProposalIds :
                       proposal_vote_power_store[id] + BatchPower(proposal_votes, id)
                          > MaxUint)
                   => LET r == cast_votes_outcome(caller_address, voter_address, proposal_votes)
                      IN  /\ ~r.ok
                          /\ r.power = proposal_vote_power_store
                          /\ r.spent = spent_voting_power_store
    /\ (Called /\ last.op = "cast_votes")
          => /\ \A id \in ProposalIds :
                   proposal_vote_power_store[id] >= before.proposal_vote_power[id]
             /\ \A voter_address \in Voters :
                   spent_voting_power_store[voter_address]
                      >= before.spent_voting_power[voter_address]
             /\ SumOf(proposal_vote_power_store, ProposalIds)
                   - SumOf(before.proposal_vote_power, ProposalIds)
                = SumOf(spent_voting_power_store, Voters)
                   - SumOf(before.spent_voting_power, Voters)

\* a vote was refused because it would have taken a proposal above the word, by a
\* voter who had the power for it
C31_Witness ==
    /\ Called
    /\ last.op = "cast_votes"
    /\ ~last.ok
    /\ last.err = "SafeUint256: addition overflow"
    /\ Snapshot = before

\* C32: in every state the accumulated voting power summed over all proposal ids
\* equals the spent voting power summed over all voters.
C32_VotingPowerIsConserved ==
    SumOf(proposal_vote_power_store, ProposalIds) = SumOf(spent_voting_power_store, Voters)

\* two voters have spent power, on two proposals
C32_Witness ==
    /\ Called
    /\ last.op = "cast_votes"
    /\ last.ok
    /\ Cardinality({v \in Voters : spent_voting_power_store[v] > 0}) >= 2
    /\ Cardinality({id \in ProposalIds : proposal_vote_power_store[id] > 0}) >= 2

\* C33: every id whose accumulated power is above 0 is below the nonce and has a
\* non-zero proposer address.
C33_PowerOnlyOnExistingProposals ==
    \A id \in ProposalIds :
       proposal_vote_power_store[id] > 0
          => (1 <= id /\ id < next_proposal_nonce_store /\ Exists(id))

C36_CancelProposalChangesOnlyTheFlag ==
    (Called /\ last.op = "cancel_proposal" /\ last.ok)
       => Snapshot = [before EXCEPT !.cancelled_proposals =
                         [before.cancelled_proposals EXCEPT ![last.proposal_id] = 1]]

\* a proposal with votes was cancelled while another proposal and spent power existed
C36_Witness ==
    /\ Called
    /\ last.op = "cancel_proposal"
    /\ last.ok
    /\ before.cancelled_proposals[last.proposal_id] = 0
    /\ proposal_vote_power_store[last.proposal_id] > 0
    /\ \E voter_address \in Voters : spent_voting_power_store[voter_address] > 0
    /\ \E id \in ProposalIds : id # last.proposal_id /\ Exists(id)

\* C37: a round that is never cancelled and whose time passes votePeriodEnd, with
\* finalize_round called again and again and the execute call succeeding in the end,
\* eventually is EXECUTED, whatever proposals, votes and cancellations came before.
C37_RoundIsEventuallyExecuted ==
    ([](round_state_store # CANCELLED) /\ <>(now > vote_period_end_timestamp_store))
       => <>(round_state_store = EXECUTED)

====
